---- MODULE Spec2Model ----
(***************************************************************************)
(* Model of src/data/replay_buffer.py: class ReplayBuffer.                 *)
(*                                                                         *)
(* A buffer is constructed over a root directory that holds pickled        *)
(* session records (pkl/<stem>.pkl) and frame images                       *)
(* (frames/<stem>/frame_NNNN.jpg).  The constructor resets the buffer and  *)
(* ingests the directory; afterwards the public methods reset,             *)
(* add_directory, add_pkl_file and __getitem__ may be called.              *)
(*                                                                         *)
(* Strings that the code compares (file names) are sequences of character  *)
(* codes, so that sorted() is the code-point order Python uses.  A frame   *)
(* tensor is represented by what produced it: the pipeline and the image   *)
(* file.                                                                   *)
(***************************************************************************)
EXTENDS Integers, Sequences, FiniteSets, TLC

VARIABLES
    max_size,           \* self.max_size
    transforms,         \* self.transforms, the configured pipelines in order
    disk_pkl,           \* the *.pkl files of pkl_dir: file name -> record
    disk_jpg,           \* the frame image files that exist: <<stem, i>>
    observations,       \* self.observations
    actions,            \* self.actions
    next_observations,  \* self.next_observations
    offsets,            \* self.offsets
    file_ids,           \* self.file_ids
    frame_idx,          \* self.frame_idx
    current_size,       \* self.current_size
    frames,             \* self.frames
    obs_type,           \* type of self.observations: "list" or "Tensor"
    next_type,          \* type of self.next_observations: "list" or "ndarray"
    pc,                 \* position of the ingesting thread
    caller,             \* the outermost call in progress
    todo,               \* add_directory: the pkl files not yet ingested
    in_dir,             \* add_pkl_file was called by add_directory
    pkl_path,           \* add_pkl_file: its argument
    data,               \* add_pkl_file: the unpickled record
    num_frames,         \* add_pkl_file: len(data['frame'])
    prev_length,        \* add_pkl_file: len(self.observations) on entry
    i,                  \* add_pkl_file: the loop variable of the numeric pass
    tasks,              \* executor.map: the futures, by submission index
    done_order,         \* executor: the task indices in completion order
    collected,          \* executor.map: the results yielded so far, in order
    outcome,            \* how the last outermost call ended
    ret,                \* what the last __getitem__ returned
    calls,              \* number of method calls made after construction
    entry,              \* observer: the buffer as add_pkl_file found it
    first,              \* observer: what the constructor's ingestion produced
    since_reset         \* observer: the ingestion calls since the last reset()

config == <<max_size, transforms, disk_pkl, disk_jpg>>
buffer == <<observations, actions, next_observations, offsets, file_ids,
            frame_idx, current_size, frames, obs_type, next_type>>
locals == <<pkl_path, data, num_frames, prev_length, i>>
pool   == <<tasks, done_order, collected>>
watch  == <<first, since_reset>>
vars   == <<config, buffer, pc, caller, todo, in_dir, locals, pool,
            outcome, ret, calls, entry, watch>>

----------------------------------------------------------------------------
(* Bounds of the model *)

MaxFrames == 3    \* a session record has 0 .. MaxFrames frames
MaxSize   == 2    \* max_size is 0 .. MaxSize, or the default
MaxCalls  == 2    \* ingestion calls after the constructor has returned
MaxIndex  == 2    \* __getitem__ is called with -MaxIndex .. MaxIndex

(* Program constants *)

DefaultMaxSize == 1000000

----------------------------------------------------------------------------
(* Strings as sequences of character codes *)

DotPkl == <<46, 112, 107, 108>>                    \* ".pkl"

\* The session stems the directories are built from: "a" and "a-b".
\* '-' (45) sorts before '.' (46), which sorts before the letters.
StemPool == {<<97>>, <<97, 45, 98>>}

\* Python's str.__lt__: code-point lexicographic order.
RECURSIVE StrLess(_, _)
StrLess(s, t) ==
    IF s = <<>> THEN t # <<>>
    ELSE IF t = <<>> THEN FALSE
    ELSE IF Head(s) # Head(t) THEN Head(s) < Head(t)
    ELSE StrLess(Tail(s), Tail(t))

\* sorted(S) for a finite set of distinct strings.
RECURSIVE Sorted_reversed(_)
Sorted_reversed(S) ==
    IF S = {} THEN <<>>
    ELSE LET m == CHOOSE x \in S : \A y \in S \ {x} : StrLess(y, x)
         IN  <<m>> \o Sorted_reversed(S \ {m})

RECURSIVE Sorted(_)
Sorted(S) ==
    IF S = {} THEN <<>>
    ELSE LET m == CHOOSE x \in S : \A y \in S \ {x} : StrLess(x, y)
         IN  <<m>> \o Sorted(S \ {m})

\* Path(pkl_path).stem for a name that ends in ".pkl".
Stem(name) == SubSeq(name, 1, Len(name) - Len(DotPkl))

PklName(stem) == stem \o DotPkl

\* glob(str(Path(directory) / "*.pkl")): the names in the directory.  The
\* directory prefix is common to all paths and does not affect their order.
Glob == DOMAIN disk_pkl

----------------------------------------------------------------------------
(* Session records *)

ObsFields == <<"p1_position_x", "p1_position_y", "p1_percent", "p1_facing",
               "p1_action", "p2_position_x", "p2_position_y", "p2_percent",
               "p2_facing", "p2_action">>

ActFields == <<"p1_main_stick_x", "p1_main_stick_y", "p1_c_stick_x",
               "p1_c_stick_y", "p1_l_shoulder", "p1_r_shoulder",
               "p1_button_a", "p1_button_b", "p1_button_x", "p1_button_y",
               "p1_button_z", "p1_button_d_up">>

Range(s) == {s[k] : k \in DOMAIN s}

AllFields == {"frame"} \cup Range(ObsFields) \cup Range(ActFields)

FieldNo(f) == IF f = "frame" THEN 0
              ELSE IF f \in Range(ObsFields)
                   THEN CHOOSE k \in DOMAIN ObsFields : ObsFields[k] = f
                   ELSE 10 + (CHOOSE k \in DOMAIN ActFields : ActFields[k] = f)

BigValue == 16777216 + 1    \* 2^24 + 1: not representable in float32

\* The recorded value of field f at frame k (0-based) of the session with
\* stem s: a fixed, varied sample, with one value float32 cannot hold.
SampleValue(s, f, k) ==
    IF f = "frame" THEN k
    ELSE IF f = "p1_percent" /\ k = 1 THEN BigValue
    ELSE (Len(s) * 5 + Head(s) + FieldNo(f) * 3 + k * 7) % 11

\* The shapes a record on disk may have.
Shapes == {"ok", "missing_field", "short_field", "long_field"}

OddField == "p2_action"     \* the field a defective record is defective in

FieldLen(f, n, shape) ==
    IF f # OddField THEN n
    ELSE IF shape = "short_field" /\ n > 0 THEN n - 1
    ELSE IF shape = "long_field" THEN n + 1
    ELSE n

MkRecord(s, n, shape) ==
    [f \in (IF shape = "missing_field" THEN AllFields \ {OddField} ELSE AllFields)
        |-> [k \in 1 .. FieldLen(f, n, shape) |-> SampleValue(s, f, k - 1)]]

\* A record is well formed when it has every field and all have one length.
WellFormed(rec) ==
    /\ DOMAIN rec = AllFields
    /\ \A f \in AllFields : Len(rec[f]) = Len(rec["frame"])

----------------------------------------------------------------------------
(* Pure functions of the buffer *)

\* np.float32(v) for a natural number v < 2^25: exact up to 2^24, then
\* rounded to the nearest even multiple (round half to even).
F32(v) ==
    IF v <= 16777216 \/ v % 2 = 0 THEN v
    ELSE IF ((v - 1) \div 2) % 2 = 0 THEN v - 1 ELSE v + 1

\* The exception that reading the fields at frame k (0-based) raises, in the
\* order the array literal evaluates them, or "none".
FieldError(fields, rec, k) ==
    LET bad == {j \in DOMAIN fields :
                    \/ fields[j] \notin DOMAIN rec
                    \/ k + 1 > Len(rec[fields[j]])}
    IN  IF bad = {} THEN "none"
        ELSE LET j == CHOOSE x \in bad : \A y \in bad : x <= y
             IN  IF fields[j] \notin DOMAIN rec THEN "KeyError" ELSE "IndexError"

\* _create_observation(data, frame_idx)
_create_observation(rec, k) ==
    [j \in DOMAIN ObsFields |-> F32(rec[ObsFields[j]][k + 1])]

\* _create_action(data, frame_idx)
_create_action(rec, k) ==
    [j \in DOMAIN ActFields |-> F32(rec[ActFields[j]][k + 1])]

\* Line 165: the frame next_observation is computed at.
SuccessorIndex_same(k) == k

SuccessorIndex(k) == k + 1

\* The exception lines 163-165 raise for loop index k, or "none".
VectorsError(rec, k) ==
    LET e1 == FieldError(ObsFields, rec, k)
        e2 == FieldError(ActFields, rec, k)
        e3 == FieldError(ObsFields, rec, SuccessorIndex(k))
    IN  IF e1 # "none" THEN e1 ELSE IF e2 # "none" THEN e2 ELSE e3

\* Image.open(path).convert("RGB") of frames/<file_id>/frame_<k>.jpg: the
\* decoded image is identified by the file it was read from.
FramePath(file_id, k) == <<file_id, k>>

Decode(path) == [session |-> path[1], frame |-> path[2]]

\* transform(image): the tensor, identified by the pipeline and the image.
ApplyTransform(t, image) == [pipeline |-> t, image |-> image]

\* Line 137: the index load_and_transform_frames reads file_ids at (0-based).
FileIdIndex(start, k) == start + k

\* load_and_transform_frames(start, k, transforms): the list of tensors, or
\* the exception raised.
load_and_transform_frames(start, k, ts) ==
    IF FileIdIndex(start, k) + 1 \notin DOMAIN file_ids
    THEN [state |-> "IndexError", value |-> <<>>]
    ELSE LET file_id == file_ids[FileIdIndex(start, k) + 1]
             path    == FramePath(file_id, k)
         IN  IF path \notin disk_jpg
             THEN [state |-> "FileNotFoundError", value |-> <<>>]
             ELSE [state |-> "done",
                   value |-> [t \in DOMAIN ts |-> ApplyTransform(ts[t], Decode(path))]]

\* reduce(operator.add, results) for a non-empty list of lists.
RECURSIVE Concat(_)
Concat(ls) == IF ls = <<>> THEN <<>> ELSE Head(ls) \o Concat(Tail(ls))

\* __len__
BufLen == Len(observations)

\* seq[idx] in Python: the 1-based position read, or 0 for an IndexError.
PyIndex(n, idx) ==
    IF 0 <= idx /\ idx < n THEN idx + 1
    ELSE IF idx < 0 /\ idx + n >= 0 THEN idx + n + 1
    ELSE 0

\* __getitem__(idx)
GetItemResult(idx) ==
    LET k == PyIndex(BufLen, idx)
        f == PyIndex(Len(frames), idx)
    IN  IF k = 0 \/ f = 0
        THEN [kind |-> "IndexError", idx |-> idx]
        ELSE [kind |-> "value", idx |-> idx,
              triple |-> <<observations[k], actions[k], next_observations[k]>>,
              frame |-> frames[f]]

\* The pipelines the constructor builds from the names in `transforms`:
\* always in the order default, jitter, AE_transform.
PipelineOrder == <<"default", "jitter", "AE_transform">>

RECURSIVE Select(_, _)
Select(order, names) ==
    IF order = <<>> THEN <<>>
    ELSE (IF Head(order) \in names THEN <<Head(order)>> ELSE <<>>)
         \o Select(Tail(order), names)

----------------------------------------------------------------------------
(* Initial states: the configurations and directories considered *)

\* What one session file and its frame directory may look like: n frames,
\* a record shape, and at most one missing image among frames 0 .. n-2
\* (missing = -1: every image is there).
Options ==
    {o \in [n : 0 .. MaxFrames, shape : Shapes, missing : -1 .. MaxFrames - 2] :
        /\ o.missing < o.n - 1
        /\ o.shape = "ok" \/ o.missing = -1}

\* The `transforms` arguments considered: those of train_encoder.py, and
\* all three names in another order.
TransformConfigs ==
    {<<"default">>, <<"default", "jitter">>, <<"jitter", "AE_transform", "default">>}

NoData == <<>>
NoRet  == [kind |-> "none"]
NoEntry == [size |-> 0, frames |-> 0]
NoFirst == <<>>

Init ==
    /\ max_size \in (0 .. MaxSize) \cup {DefaultMaxSize}
    /\ \E names \in TransformConfigs :
          transforms = Select(PipelineOrder, Range(names))
    /\ \E S \in SUBSET StemPool :
          /\ \E d \in [S -> Options] :
                /\ disk_pkl = [name \in {PklName(s) : s \in S} |->
                                 MkRecord(Stem(name), d[Stem(name)].n,
                                          d[Stem(name)].shape)]
                /\ disk_jpg = {FramePath(s, k) : s \in S, k \in 0 .. MaxFrames - 1}
                                \ {FramePath(s, d[s].missing) : s \in S}
    \* line 51: self.reset()
    /\ observations = <<>> /\ actions = <<>> /\ next_observations = <<>>
    /\ offsets = <<>> /\ file_ids = <<>> /\ frame_idx = <<>>
    /\ current_size = 0 /\ frames = <<>>
    /\ obs_type = "list" /\ next_type = "list"
    \* line 52: self.add_directory(self.pkl_dir) is about to run
    /\ pc = "glob" /\ caller = "__init__"
    /\ todo = <<>> /\ in_dir = FALSE
    /\ pkl_path = <<>> /\ data = NoData /\ num_frames = 0
    /\ prev_length = 0 /\ i = 0
    /\ tasks = <<>> /\ done_order = <<>> /\ collected = <<>>
    /\ outcome = "none" /\ ret = NoRet /\ calls = 0 /\ entry = NoEntry
    /\ first = NoFirst /\ since_reset = "no_reset"

----------------------------------------------------------------------------
(* Control transfers shared by the actions *)

ClearLocals ==
    /\ pkl_path' = <<>> /\ data' = NoData /\ num_frames' = 0
    /\ prev_length' = 0 /\ i' = 0
    /\ tasks' = <<>> /\ done_order' = <<>> /\ collected' = <<>>
    /\ entry' = NoEntry

\* An exception propagates out of the outermost call: nothing catches it.
\* Out of __init__ it leaves no buffer object behind.
Raise(e) ==
    /\ outcome' = e
    /\ pc' = IF caller = "__init__" THEN "dead" ELSE "idle"
    /\ caller' = IF caller = "__init__" THEN caller ELSE "none"
    /\ todo' = <<>> /\ in_dir' = FALSE
    /\ ClearLocals

\* add_pkl_file returns: to the loop of add_directory, or to the caller.
ReturnPkl ==
    /\ pc' = IF in_dir THEN "dir" ELSE "idle"
    /\ outcome' = IF in_dir THEN outcome ELSE "ok"
    /\ caller' = IF in_dir THEN caller ELSE "none"
    /\ UNCHANGED <<todo, in_dir>>
    /\ ClearLocals

\* Line 155: prev_length, the flat index the session's entries start at.
PrevLength_next == Len(observations) + 1

PrevLength == Len(observations)

\* Lines 150-155: open and unpickle the file, take num_frames and prev_length.
\* Every record considered has the field 'frame'.
EnterPkl(path) ==
    /\ pkl_path' = path
    /\ data' = disk_pkl[path]
    /\ num_frames' = Len(disk_pkl[path]["frame"])
    /\ prev_length' = PrevLength
    /\ i' = 0
    /\ entry' = [size |-> current_size, frames |-> Len(frames)]
    /\ pc' = "loop"
    /\ UNCHANGED <<pool, outcome>>

----------------------------------------------------------------------------
(* add_directory *)

\* Line 197: pkl_files = sorted(glob(...))
ListDirectory ==
    /\ pc = "glob"
    /\ todo' = Sorted(Glob)
    /\ pc' = "dir"
    /\ UNCHANGED <<config, watch, buffer, caller, in_dir, locals, pool, outcome, ret,
                   calls, entry>>

\* Lines 198-199: the next pkl file is handed to add_pkl_file.
IngestNext ==
    /\ pc = "dir"
    /\ todo # <<>>
    /\ todo' = Tail(todo)
    /\ in_dir' = TRUE
    /\ EnterPkl(Head(todo))
    /\ UNCHANGED <<config, watch, buffer, caller, ret, calls>>

\* The numeric and provenance sequences of the buffer, and its count.
NumericState ==
    <<observations, actions, next_observations, file_ids, offsets, frame_idx,
      current_size>>

\* Lines 201-206: the lists of observations become dense arrays.
Convert ==
    /\ pc = "dir"
    /\ todo = <<>>
    /\ obs_type' = "Tensor"
    /\ next_type' = "ndarray"
    /\ pc' = "idle"
    /\ caller' = "none"
    /\ outcome' = "ok"
    /\ in_dir' = FALSE
    /\ first' = IF caller = "__init__" THEN NumericState ELSE first
    /\ UNCHANGED <<config, since_reset, observations, actions, next_observations,
                   offsets, file_ids, frame_idx, current_size, frames, todo,
                   locals, pool, ret, calls, entry>>

----------------------------------------------------------------------------
(* add_pkl_file: the numeric pass, lines 158-177 *)

\* range(num_frames - 1)
LoopBound == num_frames - 1

\* Line 159: the capacity test
AtCapacity_strict == current_size > max_size

AtCapacity == current_size >= max_size

\* The number of entries one frame is appended as (the loop of line 168).
Replicas_once == IF transforms = <<>> THEN 0 ELSE 1

Replicas_capped ==
    IF Len(transforms) <= max_size - current_size
    THEN Len(transforms)
    ELSE max_size - current_size

Replicas == Len(transforms)

\* Line 170: self.observations has an append method only while it is a list.
Appendable_always == TRUE

Appendable == obs_type = "list"

RECURSIVE Repeat(_, _)
Repeat(x, n) == IF n <= 0 THEN <<>> ELSE <<x>> \o Repeat(x, n - 1)

\* Lines 159-160: the ceiling is reached; add_pkl_file returns at once.
ReturnAtCapacity ==
    /\ pc = "loop"
    /\ i < LoopBound
    /\ AtCapacity
    /\ ReturnPkl
    /\ UNCHANGED <<config, watch, buffer, ret, calls>>

\* Lines 163-165 raise: the record lacks a field or a field is too short.
VectorsRaise ==
    /\ pc = "loop"
    /\ i < LoopBound
    /\ ~AtCapacity
    /\ VectorsError(data, i) # "none"
    /\ Raise(VectorsError(data, i))
    /\ UNCHANGED <<config, watch, buffer, ret, calls>>

\* Line 170 raises: a Tensor has no append.
AppendRaise ==
    /\ pc = "loop"
    /\ i < LoopBound
    /\ ~AtCapacity
    /\ VectorsError(data, i) = "none"
    /\ ~Appendable
    /\ Replicas > 0
    /\ Raise("AttributeError")
    /\ UNCHANGED <<config, watch, buffer, ret, calls>>

\* Lines 163-177: one frame is appended, once per pipeline.
AppendFrame ==
    /\ pc = "loop"
    /\ i < LoopBound
    /\ ~AtCapacity
    /\ VectorsError(data, i) = "none"
    /\ Appendable
    /\ observations' = observations \o Repeat(_create_observation(data, i), Replicas)
    /\ actions' = actions \o Repeat(_create_action(data, i), Replicas)
    /\ next_observations' =
          next_observations
             \o Repeat(_create_observation(data, SuccessorIndex(i)), Replicas)
    /\ file_ids' = file_ids \o Repeat(Stem(pkl_path), Replicas)
    /\ offsets' = offsets \o Repeat(prev_length, Replicas)
    /\ frame_idx' = frame_idx \o Repeat(i, Replicas)
    /\ current_size' = current_size + Replicas
    /\ i' = i + 1
    /\ UNCHANGED <<config, watch, frames, obs_type, next_type, pc, caller, todo, in_dir,
                   pkl_path, data, num_frames, prev_length, pool, outcome, ret,
                   calls, entry>>

----------------------------------------------------------------------------
(* add_pkl_file: the image stage, lines 179-188 *)

Pending == [state |-> "pending", value |-> <<>>]

\* executor.map submits one task per element of range(num_frames - 1), at
\* once and in order; tasks[k + 1] is the future of frame k.
SubmitTasks ==
    /\ pc = "loop"
    /\ i >= LoopBound
    /\ tasks' = [k \in 1 .. LoopBound |-> Pending]
    /\ done_order' = <<>>
    /\ collected' = <<>>
    /\ pc' = "pool"
    /\ UNCHANGED <<config, watch, buffer, caller, todo, in_dir, locals, outcome, ret,
                   calls, entry>>

\* Lines 136-140: self.frames as the task of frame k leaves it.  The task
\* assigns to no attribute of the buffer; it returns its tensors.
WorkerWrites_extend(k) ==
    frames \o load_and_transform_frames(prev_length, k, transforms).value

WorkerWrites(k) == frames

\* A worker thread runs the task of frame k to its end.  Tasks finish in
\* any order.
WorkerRun(k) ==
    /\ pc = "pool"
    /\ k + 1 \in DOMAIN tasks
    /\ tasks[k + 1].state = "pending"
    /\ tasks' = [tasks EXCEPT ![k + 1] =
                    load_and_transform_frames(prev_length, k, transforms)]
    /\ done_order' = Append(done_order, k)
    /\ frames' = WorkerWrites(k)
    /\ UNCHANGED <<config, watch, observations, actions, next_observations,
                   offsets, file_ids, frame_idx, current_size, obs_type,
                   next_type, pc, caller, todo, in_dir, locals, collected,
                   outcome, ret, calls, entry>>

\* The future whose result list(executor.map(...)) takes next (1-based):
\* map yields the results in submission order.
NextFuture_as_completed ==
    IF Len(collected) < Len(done_order)
    THEN done_order[Len(collected) + 1] + 1
    ELSE 0

NextFuture == Len(collected) + 1

\* The ingesting thread takes the next result; it waits until that task is
\* finished.
CollectResult ==
    /\ pc = "pool"
    /\ NextFuture \in DOMAIN tasks
    /\ tasks[NextFuture].state = "done"
    /\ collected' = Append(collected, tasks[NextFuture].value)
    /\ UNCHANGED <<config, watch, buffer, pc, caller, todo, in_dir, locals, tasks,
                   done_order, outcome, ret, calls, entry>>

\* future.result() re-raises the exception the task ended with.
Failed_ignored(t) == FALSE

Failed(t) == t.state \notin {"pending", "done"}

\* The task whose result is taken next has raised: the exception leaves
\* executor.map and add_pkl_file.
CollectRaise ==
    /\ pc = "pool"
    /\ NextFuture \in DOMAIN tasks
    /\ Failed(tasks[NextFuture])
    /\ Raise(tasks[NextFuture].state)
    /\ UNCHANGED <<config, watch, buffer, ret, calls>>

\* reduce(operator.add, []) has no initial value.
ReduceRaise ==
    /\ pc = "pool"
    /\ tasks = <<>>
    /\ Raise("TypeError")
    /\ UNCHANGED <<config, watch, buffer, ret, calls>>

\* list(executor.map(...)) is complete when every future has yielded.
AllCollected_early == Len(collected) >= 1

AllCollected == Len(collected) = Len(tasks)

\* Lines 180-181: self.frames.extend(reduce(operator.add, results))
ExtendFrames ==
    /\ pc = "pool"
    /\ tasks # <<>>
    /\ AllCollected
    /\ frames' = frames \o Concat(collected)
    /\ ReturnPkl
    /\ UNCHANGED <<config, watch, observations, actions, next_observations, offsets,
                   file_ids, frame_idx, current_size, obs_type, next_type, ret,
                   calls>>

----------------------------------------------------------------------------
(* Calls made on the constructed buffer *)

\* An ingestion call can be made: the buffer is idle, and the number of
\* such calls is kept bounded.
Callable == pc = "idle" /\ calls < MaxCalls

\* Line 62: the value reset() gives self.current_size.
ResetSize_kept == current_size

ResetSize == 0

\* reset(), lines 54-63
Reset ==
    /\ pc = "idle"
    /\ observations' = <<>> /\ actions' = <<>> /\ next_observations' = <<>>
    /\ offsets' = <<>> /\ file_ids' = <<>> /\ frame_idx' = <<>>
    /\ current_size' = ResetSize /\ frames' = <<>>
    /\ obs_type' = "list" /\ next_type' = "list"
    /\ outcome' = "ok" /\ ret' = NoRet
    /\ since_reset' = "reset"
    /\ UNCHANGED <<config, first, pc, caller, todo, in_dir, locals, pool, calls, entry>>

\* add_directory(self.pkl_dir) is called.
CallAddDirectory ==
    /\ Callable
    /\ pc' = "glob"
    /\ caller' = "add_directory"
    /\ outcome' = "none" /\ ret' = NoRet
    /\ calls' = calls + 1
    /\ since_reset' = IF since_reset = "no_reset" THEN "no_reset"
                      ELSE IF since_reset = "reset" THEN "add_directory"
                      ELSE "other"
    /\ UNCHANGED <<config, first, buffer, todo, in_dir, locals, pool, entry>>

\* add_pkl_file(path) is called for a file of the directory.
CallAddPklFile(path) ==
    /\ Callable
    /\ path \in Glob
    /\ caller' = "add_pkl_file"
    /\ in_dir' = FALSE
    /\ EnterPkl(path)
    /\ ret' = NoRet
    /\ calls' = calls + 1
    /\ since_reset' = IF since_reset = "no_reset" THEN "no_reset" ELSE "other"
    /\ UNCHANGED <<config, first, buffer, todo>>

\* The indices __getitem__ is called with.
Indices == -MaxIndex .. MaxIndex

\* __getitem__(idx), lines 68-78.  A read changes nothing in the buffer, so
\* one read between two other calls shows all that reads can show.
GetItem(idx) ==
    /\ pc = "idle"
    /\ ret = NoRet
    /\ ret' = GetItemResult(idx)
    /\ outcome' = IF GetItemResult(idx).kind = "value" THEN "ok" ELSE "IndexError"
    /\ UNCHANGED <<config, watch, buffer, pc, caller, todo, in_dir, locals, pool, calls,
                   entry>>

----------------------------------------------------------------------------

Next ==
    \/ ListDirectory
    \/ IngestNext
    \/ Convert
    \/ ReturnAtCapacity
    \/ VectorsRaise
    \/ AppendRaise
    \/ AppendFrame
    \/ SubmitTasks
    \/ \E k \in 0 .. MaxFrames : WorkerRun(k)
    \/ CollectResult
    \/ CollectRaise
    \/ ReduceRaise
    \/ ExtendFrames
    \/ Reset
    \/ CallAddDirectory
    \/ \E path \in Glob : CallAddPklFile(path)
    \/ \E idx \in Indices : GetItem(idx)

Spec == Init /\ [][Next]_vars

----------------------------------------------------------------------------
(* Vocabulary of the properties *)

\* The constructor has returned and no call has changed the buffer since.
Constructed == calls = 0 /\ pc = "idle" /\ obs_type = "Tensor"

\* add_directory has run to its end and the buffer was not reset since.
IngestedDirectory == obs_type = "Tensor"

Min(a, b) == IF a <= b THEN a ELSE b

\* The session record the entry at position idx (1-based) was taken from.
RecordOf(idx) == disk_pkl[PklName(file_ids[idx])]

\* The observation vector of frame k of a record, <<>> if it has none.
ObservationAt(rec, k) ==
    IF FieldError(ObsFields, rec, k) = "none"
    THEN _create_observation(rec, k)
    ELSE <<>>

\* The pipeline the numeric entry at position idx was appended for: the
\* entries of one frame are appended in the order of self.transforms.
VariantOf(idx) == transforms[((idx - 1 - offsets[idx]) % Len(transforms)) + 1]

\* The tensor that belongs at position idx according to the provenance.
ExpectedFrame(idx) ==
    ApplyTransform(VariantOf(idx), Decode(FramePath(file_ids[idx], frame_idx[idx])))

\* The examples a list of session files offers, in ingestion order, as
\* <<stem, frame index, pipeline>>.
SessionOffer(name) ==
    Concat([k \in 1 .. Len(disk_pkl[name]["frame"]) - 1 |->
               [t \in DOMAIN transforms |-> <<Stem(name), k - 1, transforms[t]>>]])

RECURSIVE Offer(_)
Offer(files) ==
    IF files = <<>> THEN <<>> ELSE SessionOffer(Head(files)) \o Offer(Tail(files))

\* The lengths of all sequences of the buffer.
Lengths ==
    <<Len(observations), Len(actions), Len(next_observations), Len(frames),
      Len(file_ids), Len(offsets), Len(frame_idx)>>

Sequences7 ==
    <<observations, actions, next_observations, frames, file_ids, offsets,
      frame_idx>>

----------------------------------------------------------------------------
(* C1 - C10 *)

\* C1: after add_directory has ingested the directory, len(buffer) is at
\* most max_size.
C1_CapacityInvariant == IngestedDirectory => BufLen <= max_size

\* C2: whenever every add_pkl_file call so far has returned normally, the
\* sequences observations, actions, next_observations and frames have the
\* same length.  During construction every call that was left was left
\* normally, as an exception ends the construction.
C2_EqualLengths ==
    (calls = 0 /\ pc \in {"dir", "idle"}) =>
        /\ Len(actions) = Len(observations)
        /\ Len(next_observations) = Len(observations)
        /\ Len(frames) = Len(observations)

\* C3: after the directory is ingested, every index of the buffer has a
\* frame tensor, and it is the one produced from the image of session
\* file_ids[i] at frame frame_idx[i] by the pipeline of entry i.
C3_Alignment ==
    Constructed =>
        \A idx \in 1 .. BufLen :
            /\ idx \in DOMAIN frames
            /\ frames[idx] = ExpectedFrame(idx)

\* C4: when the numeric pass of a session of N >= 1 frames ends without
\* having met the ceiling, it has appended exactly (N-1) * P entries to
\* observations, actions and next_observations.
C4_NumericCount ==
    (pc = "pool" /\ num_frames >= 1) =>
        /\ Len(observations) = prev_length + (num_frames - 1) * Len(transforms)
        /\ Len(actions) = prev_length + (num_frames - 1) * Len(transforms)
        /\ Len(next_observations) = prev_length + (num_frames - 1) * Len(transforms)

C4_Witness ==
    /\ pc = "pool" /\ num_frames >= 3 /\ Len(transforms) >= 2
    /\ prev_length > 0

\* C5: for every entry, observations[i] is the observation vector of the
\* entry's session record at frame frame_idx[i], and next_observations[i]
\* the one at frame frame_idx[i] + 1.
C5_Successor ==
    \A idx \in DOMAIN file_ids :
        /\ observations[idx] = ObservationAt(RecordOf(idx), frame_idx[idx])
        /\ next_observations[idx] = ObservationAt(RecordOf(idx), frame_idx[idx] + 1)

C5_Witness ==
    \E idx \in DOMAIN file_ids :
        /\ frame_idx[idx] = 1
        /\ offsets[idx] > 0
        /\ observations[idx] # next_observations[idx]
        /\ observations[idx][3] = 16777216

\* C6: a session whose ingestion starts when the running count has reached
\* max_size changes none of the sequences of the buffer.
C6_NoAdmissionAfterCeiling ==
    [][(pc \in {"loop", "pool"} /\ entry.size >= max_size)
          => Sequences7' = Sequences7]_vars

C6_Witness ==
    /\ pc = "loop" /\ in_dir /\ caller = "__init__"
    /\ entry.size >= max_size /\ max_size > 0
    /\ num_frames >= 2

\* C7: after a directory that offers A examples is ingested, len(buffer) is
\* min(max_size, A), the entries are the first min(max_size, A) examples in
\* ingestion order, and each has its frame tensor.
C7_ExactTruncation ==
    Constructed =>
        LET offer == Offer(Sorted(Glob))
            kept  == Min(max_size, Len(offer))
        IN  /\ BufLen = kept
            /\ Len(frames) = kept
            /\ \A idx \in 1 .. Min(kept, BufLen) :
                  <<file_ids[idx], frame_idx[idx], VariantOf(idx)>> = offer[idx]

\* C8: whatever order the tasks of a session finish in, the tensors appended
\* to frames are in ascending frame order, those of one frame in pipeline
\* order, which is the order of the session's numeric entries.
C8_OrderedCollection ==
    [][(pc = "pool" /\ tasks # <<>> /\ Len(collected) = Len(tasks) /\ pc' # "pool")
          => /\ frames' = frames \o
                   Concat([k \in 1 .. Len(tasks) |->
                             [t \in DOMAIN transforms |->
                                ApplyTransform(transforms[t],
                                    Decode(FramePath(Stem(pkl_path), k - 1)))]])
             /\ frames' = frames \o
                   [j \in 1 .. Len(file_ids) - prev_length |->
                       ExpectedFrame(prev_length + j)]]_vars

C8_Witness ==
    /\ pc = "pool" /\ Len(tasks) >= 2 /\ Len(collected) = Len(tasks)
    /\ done_order[1] > done_order[2]
    /\ Len(transforms) >= 2

\* C9: __getitem__(i) fails for every i outside 0 .. len(buffer) - 1, the
\* negative ones included, and inside the range it returns
\* ((observations[i], actions[i], next_observations[i]), frames[i]).
\* Stated for the buffers in which every entry has its frame tensor.
C9_GetItemRange ==
    (ret.kind # "none" /\ Len(frames) = BufLen) =>
        IF ret.idx \in 0 .. BufLen - 1
        THEN /\ ret.kind = "value"
             /\ ret.triple = <<observations[ret.idx + 1], actions[ret.idx + 1],
                               next_observations[ret.idx + 1]>>
             /\ ret.idx + 1 \in DOMAIN frames
             /\ ret.frame = frames[ret.idx + 1]
        ELSE ret.kind = "IndexError"

\* C10: from the conversion on, and as long as the buffer is not reset, no
\* step of add_pkl_file or add_directory changes the length of any sequence.
C10_FrozenAfterConversion ==
    [][(obs_type = "Tensor" /\ obs_type' = "Tensor") => Lengths' = Lengths]_vars

C10_Witness ==
    /\ outcome = "AttributeError"
    /\ obs_type = "Tensor"
    /\ BufLen > 0 /\ BufLen < max_size

----------------------------------------------------------------------------
(* C11 - C20 *)

\* The buffer holds nothing but what one directory pass put there: that of
\* the constructor, or one add_directory call made on a reset buffer.
SinglePass == calls = 0 \/ since_reset \in {"reset", "add_directory"}

\* C11: a missing image of a frame of an ingested session ends the
\* ingestion in an error.  Stated for the frames whose entries are in the
\* buffer: while the constructor's pass goes on or has ended normally, no
\* entry is one whose image file is missing.
C11_MissingImageFatal ==
    (calls = 0 /\ pc \in {"dir", "idle"}) =>
        \A idx \in DOMAIN file_ids :
            FramePath(file_ids[idx], frame_idx[idx]) \in disk_jpg

\* C12: a malformed session record is never ingested to normal completion.
\* Stated for the sessions that have entries in the buffer and were not cut
\* short: while the constructor's pass goes on or has ended normally below
\* the ceiling, every entry comes from a well-formed record.
C12_MalformedFatal ==
    (calls = 0 /\ pc \in {"dir", "idle"} /\ current_size < max_size) =>
        \A idx \in DOMAIN file_ids : WellFormed(RecordOf(idx))

\* C13: a step of a worker task changes nothing of the buffer; the task
\* reads file_ids and its result is the list of tensors of its frame.
C13_WorkersReadOnly ==
    [][(pc = "pool" /\ pc' = "pool" /\ tasks' # tasks) =>
          /\ buffer' = buffer
          /\ \A k \in DOMAIN tasks :
                (tasks'[k] # tasks[k] /\ tasks'[k].state = "done") =>
                    tasks'[k].value =
                        [t \in DOMAIN transforms |->
                            ApplyTransform(transforms[t],
                                Decode(FramePath(file_ids[prev_length + k], k - 1)))]]_vars

C13_Witness ==
    /\ pc = "pool" /\ prev_length > 0
    /\ \E k \in DOMAIN tasks : tasks[k].state = "done"
    /\ \E k \in DOMAIN tasks : tasks[k].state = "pending"

\* C14: reset() followed by add_directory on the same directory gives the
\* example count and the numeric and provenance sequences of the first
\* ingestion, whatever the buffer held before the reset.
C14_Idempotence ==
    (pc = "idle" /\ since_reset = "add_directory") =>
        /\ obs_type = "Tensor"
        /\ NumericState = first

C14_Witness ==
    /\ pc = "idle" /\ since_reset = "add_directory"
    /\ calls = 2 /\ BufLen >= 2
    /\ max_size = BufLen

\* The entries of each session are contiguous.
Contiguous ==
    \A a, b, c \in DOMAIN file_ids :
        (a < b /\ b < c /\ file_ids[a] = file_ids[c]) => file_ids[b] = file_ids[a]

\* C15 as claimed: after a directory pass the entries of each session are
\* contiguous and the session identifiers file_ids are in lexicographic order.
C15_StemOrder ==
    SinglePass =>
        /\ Contiguous
        /\ \A a, b \in DOMAIN file_ids :
              a < b => ~StrLess(file_ids[b], file_ids[a])

\* C15 as amended: after a directory pass the entries of each session are
\* contiguous and the session file names file_ids[i] + ".pkl" are in
\* lexicographic order.
C15_FileNameOrder ==
    SinglePass =>
        /\ Contiguous
        /\ \A a, b \in DOMAIN file_ids :
              a < b => ~StrLess(PklName(file_ids[b]), PklName(file_ids[a]))

C15_Witness ==
    /\ SinglePass /\ pc = "idle" /\ obs_type = "Tensor"
    /\ \E a, b \in DOMAIN file_ids : a < b /\ file_ids[a] # file_ids[b]

\* The entries of the frame that entry idx belongs to.
SameFrame(idx) ==
    {j \in DOMAIN file_ids :
        /\ file_ids[j] = file_ids[idx]
        /\ offsets[j] = offsets[idx]
        /\ frame_idx[j] = frame_idx[idx]}

\* C16: every admitted frame of a session is in the buffer exactly P times,
\* with identical observation, action and next_observation, also the last
\* frame admitted before the ceiling.
C16_FanOut ==
    \A idx \in DOMAIN file_ids :
        /\ Cardinality(SameFrame(idx)) = Len(transforms)
        /\ \A j \in SameFrame(idx) :
              /\ observations[j] = observations[idx]
              /\ actions[j] = actions[idx]
              /\ next_observations[j] = next_observations[idx]

C16_Witness ==
    /\ pc = "dir" /\ Len(transforms) >= 2
    /\ max_size > 0 /\ current_size > max_size
    /\ Len(RecordOf(Len(file_ids))["frame"]) >= 3

\* C17: the image tasks of a session exist only after its numeric pass has
\* appended all its entries, and add_pkl_file returns normally from the
\* image stage (so that the next session can start) only when every task
\* has finished and the tensors of all of them are appended to frames.
C17_Phased ==
    /\ [](tasks # <<>> =>
            /\ pc = "pool"
            /\ i >= LoopBound
            /\ Len(observations) = prev_length + LoopBound * Len(transforms))
    /\ [](pc \in {"glob", "dir", "loop", "idle", "dead"} => tasks = <<>>)
    /\ [][(pc = "pool" /\ (pc' = "dir" \/ (pc' = "idle" /\ outcome' = "ok"))) =>
            /\ \A k \in DOMAIN tasks : tasks[k].state = "done"
            /\ Len(frames') = Len(frames) + Len(tasks) * Len(transforms)]_vars

C17_Witness ==
    /\ pc = "loop" /\ i >= 1
    /\ prev_length > 0 /\ Len(frames) = prev_length

\* C18 as claimed: offsets[i] is the index of the first entry with the
\* file_id of entry i, and frame_idx[i] = floor((i - offsets[i]) / P).
\* Positions are 1-based here, offsets 0-based as in the code.
C18_FirstOfSession ==
    \A idx \in DOMAIN offsets :
        /\ \A j \in DOMAIN file_ids :
              file_ids[j] = file_ids[idx] => offsets[idx] + 1 <= j
        /\ offsets[idx] + 1 \in DOMAIN file_ids
        /\ file_ids[offsets[idx] + 1] = file_ids[idx]
        /\ frame_idx[idx] = (idx - 1 - offsets[idx]) \div Len(transforms)

\* C18 as amended: offsets[i] is the index of the first entry of the
\* ingestion that appended entry i, i.e. the buffer length when that
\* add_pkl_file call began: all entries from there to i have the file_id and
\* offset of entry i, and the entry before it belongs to another ingestion;
\* frame_idx[i] = floor((i - offsets[i]) / P).  Within one directory pass
\* that entry is the first one with the file_id of entry i.
C18_Provenance ==
    /\ \A idx \in DOMAIN offsets :
          /\ offsets[idx] >= 0 /\ offsets[idx] < idx
          /\ \A m \in offsets[idx] + 1 .. idx :
                file_ids[m] = file_ids[idx] /\ offsets[m] = offsets[idx]
          /\ offsets[idx] > 0 => offsets[offsets[idx]] # offsets[idx]
          /\ frame_idx[idx] = (idx - 1 - offsets[idx]) \div Len(transforms)
          /\ (pc \in {"loop", "pool"} /\ idx > entry.size) =>
                offsets[idx] = entry.size
    /\ SinglePass => C18_FirstOfSession

C18_Witness ==
    \E a, b \in DOMAIN file_ids :
        /\ a < b /\ file_ids[a] = file_ids[b] /\ offsets[a] # offsets[b]
        /\ frame_idx[b] = 1 /\ Len(transforms) >= 2

\* C19: the ingestion of a session of exactly one frame ends without an
\* error, having appended nothing, and the directory pass goes on.
C19_SingleFrameSession ==
    [][(pc = "pool" /\ num_frames = 1 /\ pc' # "pool") =>
          /\ pc' \in {"dir", "idle"}
          /\ outcome' # "TypeError"
          /\ Sequences7' = Sequences7]_vars

----------------------------------------------------------------------------
(* Termination *)

\* The steps of the ingesting thread.
Ingest ==
    \/ ListDirectory \/ IngestNext \/ Convert
    \/ ReturnAtCapacity \/ VectorsRaise \/ AppendRaise \/ AppendFrame
    \/ SubmitTasks \/ CollectResult \/ CollectRaise \/ ReduceRaise
    \/ ExtendFrames

\* The ingesting thread keeps running while it can, and every submitted
\* task is eventually run to its end by a worker of the pool.
FairSpec ==
    /\ Spec
    /\ WF_vars(Ingest)
    /\ \A k \in 0 .. MaxFrames : WF_vars(WorkerRun(k))

Errors ==
    {"KeyError", "IndexError", "AttributeError", "TypeError", "FileNotFoundError"}

\* C20: a running add_directory (the constructor's or a later one)
\* eventually ends: with the buffer converted, or with an error.
C20_Termination ==
    (caller \in {"__init__", "add_directory"} /\ pc \notin {"idle", "dead"})
        ~> \/ pc = "dead" /\ outcome \in Errors
           \/ pc = "idle" /\ outcome = "ok" /\ obs_type = "Tensor"
           \/ pc = "idle" /\ outcome \in Errors

C20_Witness ==
    /\ pc = "pool" /\ Len(tasks) >= 2
    /\ tasks[1].state = "pending"
    /\ tasks[2].state = "FileNotFoundError"

====
